---- MODULE Spec2Model ----
(***************************************************************************)
(* SubgroupFormDialog (client/src/components/subjects-management/          *)
(* subgroup-form-dialog.tsx): the form store, the component state, the     *)
(* three effects, the user's handlers and the two kinds of request in      *)
(* flight, as a state machine; and MainLayout (client/src/components/      *)
(* layout/main-layout.tsx): its two booleans, the viewport and the resize  *)
(* listener, under a specification of its own (LayoutSpec).                *)
(*                                                                         *)
(* Encoding of JavaScript values                                           *)
(*   string            a sequence of one-character strings, "" is << >>    *)
(*   undefined, null   the one-element sequences Undefined and Null, whose *)
(*                     element is no character                             *)
(*   number            parseInt's result is << n >>, or NaN == << >>       *)
(*   optional prop     << >> when absent, << v >> when given               *)
(* A student is modelled by its id, a class by its id.                     *)
(***************************************************************************)
EXTENDS Integers, Sequences, FiniteSets

\* ------------------------------------------------------------------ bounds
\* Requests (of both kinds) that may be in flight together.
MaxPending == 2

\* ------------------------------------------------------- JavaScript values
Undefined == <<"undefined">>
Null == <<"null">>
NaN == <<>>

Digits == <<"0", "1", "2", "3", "4", "5", "6", "7", "8", "9">>

IsDigit(ch) == \E i \in 1..10 : Digits[i] = ch

DigitValue(ch) == (CHOOSE i \in 1..10 : Digits[i] = ch) - 1

\* typeof v === "string"
IsString(v) == v # Undefined /\ v # Null

\* JavaScript truthiness of a string | null | undefined value.
TruthyStr(v) == IsString(v) /\ Len(v) >= 1

\* Number.prototype.toString of a non-negative integer.
RECURSIVE ToString(_)
ToString(n) ==
  IF n < 10 THEN <<Digits[n + 1]>>
  ELSE ToString(n \div 10) \o <<Digits[(n % 10) + 1]>>

\* The longest prefix of s made of decimal digits.
RECURSIVE DigitPrefix(_)
DigitPrefix(s) ==
  IF s = <<>> \/ ~IsDigit(Head(s)) THEN <<>>
  ELSE <<Head(s)>> \o DigitPrefix(Tail(s))

RECURSIVE DecimalValue(_, _)
DecimalValue(ds, acc) ==
  IF ds = <<>> THEN acc
  ELSE DecimalValue(Tail(ds), acc * 10 + DigitValue(Head(ds)))

\* parseInt(v): the number the leading decimal digits spell, NaN when there
\* are none (the strings of the model hold no sign, blank or 0x prefix).
ParseInt(v) ==
  LET ds == DigitPrefix(v)
  IN IF ds = <<>> THEN NaN ELSE <<DecimalValue(ds, 0)>>

IsNaN(num) == num = NaN

RECURSIVE MapToString(_)
MapToString(ns) ==
  IF ns = <<>> THEN <<>> ELSE <<ToString(Head(ns))>> \o MapToString(Tail(ns))

\* ids.map(id => parseInt(id))
RECURSIVE MapParseInt(_)
MapParseInt(ids) ==
  IF ids = <<>> THEN <<>> ELSE <<ParseInt(Head(ids))>> \o MapParseInt(Tail(ids))

\* Fault variant of FilterNotNaN: an entry that is no number is sent as 0.
RECURSIVE FilterNotNaN_SendsZero(_)
FilterNotNaN_SendsZero(nums) ==
  IF nums = <<>> THEN <<>>
  ELSE IF IsNaN(Head(nums)) THEN <<0>> \o FilterNotNaN_SendsZero(Tail(nums))
  ELSE <<Head(nums)[1]>> \o FilterNotNaN_SendsZero(Tail(nums))

\* nums.filter(id => !isNaN(id)), the kept numbers unwrapped
RECURSIVE FilterNotNaN(_)
FilterNotNaN(nums) ==
  IF nums = <<>> THEN <<>>
  ELSE IF IsNaN(Head(nums)) THEN FilterNotNaN(Tail(nums))
  ELSE <<Head(nums)[1]>> \o FilterNotNaN(Tail(nums))

\* array.includes(x)
Includes(seq, x) == \E i \in 1..Len(seq) : seq[i] = x

\* array.filter(id => id !== x)
RECURSIVE Without(_, _)
Without(seq, x) ==
  IF seq = <<>> THEN <<>>
  ELSE IF Head(seq) = x THEN Without(Tail(seq), x)
  ELSE <<Head(seq)>> \o Without(Tail(seq), x)

\* seq with its i-th element removed
RemoveAt(seq, i) == SubSeq(seq, 1, i - 1) \o SubSeq(seq, i + 1, Len(seq))

\* ------------------------------------------------ props and the backend
\* The classes prop: the ids of the classes the selector offers.
classes == {3, 4}

\* GET /api/students-by-class/{classId}: the students of the class, none for
\* a class the backend does not know.
ClassRoster(classIdStr) ==
  IF classIdStr = ToString(3) THEN <<10, 11, 12>>
  ELSE IF classIdStr = ToString(4) THEN <<20>>
  ELSE <<>>

\* GET /api/student-subgroups?subgroupId={id}: the studentId of each link.
SubgroupLinks(subgroupId) ==
  IF subgroupId = 5 THEN <<10, 11>>
  ELSE IF subgroupId = 6 THEN <<20>>
  ELSE <<>>

\* The longest roster the backend returns.
MaxRoster == 3

\* The values the form starts from in create mode, and is reset to on close.
EmptyValues ==
  [name |-> <<>>, description |-> <<>>, classId |-> <<>>, studentIds |-> <<>>]

\* The defaultValues prop of edit mode.  id is optional (Partial).
EditSubgroup5 ==
  [id |-> <<5>>, name |-> <<"n">>, description |-> Null,
   classId |-> ToString(3), studentIds |-> <<ToString(10), ToString(11)>>]

\* A subgroup whose class is not among the classes prop, with entries in
\* studentIds that are no numerals: "a", "21a", "20".
EditSubgroup6 ==
  [id |-> <<6>>, name |-> <<"g">>, description |-> Undefined,
   classId |-> ToString(7),
   studentIds |-> <<<<"a">>, <<"2", "1", "a">>, ToString(20)>>]

\* Partial defaults: no id, no name, no class.
EditPartial ==
  [id |-> <<>>, name |-> Undefined, description |-> <<"d">>,
   classId |-> Undefined, studentIds |-> <<>>]

\* What the caller may pass as defaultValues: nothing, or one record.
DefaultValuesChoices ==
  {<<>>, <<EditSubgroup5>>, <<EditSubgroup6>>, <<EditPartial>>}

\* What the user may type into the name input.  The description input is
\* bound the same way; the description takes each kind of value it can hold
\* ("", a text, null, undefined) through the defaults above.
TypedNames == {<<>>, <<"n">>}

\* ---------------------------------------------------------------- state
VARIABLES
  isOpen,                     \* prop
  defaultValues,              \* prop, << >> or << record >>
  form,                       \* react-hook-form's values
  selectedClassId,            \* useState
  students,                   \* useState: the roster shown
  isLoadingStudents,          \* useState
  isLoadingSubgroupStudents,  \* useState
  rosterReqs,                 \* roster fetches in flight, in issue order
  linksReqs,                  \* subgroup-links fetches in flight
  ev,                         \* the handler that ran last and what it called
  arrivals,                   \* responses handled since a fresh open
  rosterFailed                \* a roster fetch failed since the last open

dialogVars ==
  <<isOpen, defaultValues, form, selectedClassId, students, isLoadingStudents,
    isLoadingSubgroupStudents, rosterReqs, linksReqs, ev, arrivals,
    rosterFailed>>

\* MainLayout
VARIABLES
  mounted,          \* a MainLayout is mounted
  innerWidth,       \* window.innerWidth
  sidebarOpen,      \* useState(true)
  isMobile,         \* useState(false)
  resizeListeners,  \* checkIfMobile registrations on window 'resize'
  lastToggle,       \* << >>, or << what the last toggleSidebar set >>
  lev               \* the layout handler that ran last, and the state before

layoutVars ==
  <<mounted, innerWidth, sidebarOpen, isMobile, resizeListeners, lastToggle,
    lev>>

vars == <<dialogVars, layoutVars>>

\* The mobile breakpoint, in pixels.
Breakpoint == 768

\* The viewport widths the window is resized to.
Widths == {500, 767, 768, 1024}

LayoutEvent(op) ==
  [op |-> op, sidebarOpen |-> sidebarOpen, isMobile |-> isMobile]

LayoutInit ==
  /\ mounted = FALSE
  /\ innerWidth = 1024
  /\ sidebarOpen = TRUE
  /\ isMobile = FALSE
  /\ resizeListeners = 0
  /\ lastToggle = <<>>
  /\ lev = [op |-> "none", sidebarOpen |-> TRUE, isMobile |-> FALSE]

\* const isEditMode = !!defaultValues
IsEditMode(dv) == dv # <<>>

\* defaultValues?.id is truthy
HasSubgroupId(dv) == dv # <<>> /\ dv[1].id # <<>> /\ dv[1].id[1] # 0

\* The record of a handler run: its name, its input, the form before it ran,
\* and the calls it made on its collaborators, in order.
Event(op, arg, before, onClose, onSubmit, requests, toasts) ==
  [op |-> op, arg |-> arg, before |-> before, onClose |-> onClose,
   onSubmit |-> onSubmit, requests |-> requests, toasts |-> toasts]

Dirty == <<"other">>

Init ==
  /\ isOpen = FALSE
  /\ defaultValues = <<>>
  /\ form = EmptyValues
  /\ selectedClassId = <<>>
  /\ students = <<>>
  /\ isLoadingStudents = FALSE
  /\ isLoadingSubgroupStudents = FALSE
  /\ rosterReqs = <<>>
  /\ linksReqs = <<>>
  /\ ev = Event("mount", <<>>, EmptyValues, <<>>, <<>>, <<>>, 0)
  /\ arrivals = Dirty
  /\ rosterFailed = FALSE
  /\ LayoutInit

\* --------------------------------------------------- the component's run
\* A handler or effect works on the component state and appends to the
\* calls it makes: onClose (with what the caller can read at that moment),
\* onSubmit (with the payload), requests issued, toasts shown.
Cur ==
  [form |-> form, selectedClassId |-> selectedClassId, students |-> students,
   isLoadingStudents |-> isLoadingStudents,
   isLoadingSubgroupStudents |-> isLoadingSubgroupStudents,
   rosterReqs |-> rosterReqs, linksReqs |-> linksReqs,
   onClose |-> <<>>, onSubmit |-> <<>>, requests |-> <<>>, toasts |-> 0]

RosterRequest(classIdStr) == [api |-> "students-by-class", key |-> classIdStr]
LinksRequest(subgroupId) == [api |-> "student-subgroups", key |-> subgroupId]

\* const initialValues = defaultValues || {name: "", ...}, as form.reset and
\* form.setValue('studentIds', initialValues.studentIds || []) leave the form
InitialValues(dv) ==
  IF dv = <<>> THEN EmptyValues
  ELSE [name |-> dv[1].name, description |-> dv[1].description,
        classId |-> dv[1].classId, studentIds |-> dv[1].studentIds]

\* Effect: reset the form when the dialog opens or defaultValues changes.
ResetOnOpen(s, open, dv) ==
  IF open
  THEN LET iv == InitialValues(dv)
       IN [s EXCEPT !.form = iv,
                    !.selectedClassId =
                       IF TruthyStr(iv.classId) THEN iv.classId ELSE <<>>,
                    !.students = <<>>]
  ELSE s

\* Effect body: load the students of the class held in the classId field.
LoadClassStudents(s) ==
  LET classIdToLoad == s.form.classId
  IN IF TruthyStr(classIdToLoad)
     THEN [s EXCEPT !.isLoadingStudents = TRUE,
                    !.rosterReqs = Append(@, classIdToLoad),
                    !.requests = Append(@, RosterRequest(classIdToLoad))]
     ELSE [s EXCEPT !.students = <<>>]

\* The effect's dependency form.watch("classId"): it runs after a render in
\* which the watched value differs from the one of the previous render.
OnClassIdChange(watched, s) ==
  IF s.form.classId # watched THEN LoadClassStudents(s) ELSE s

\* Effect body: load the students assigned to the subgroup in edit mode.
LoadSubgroupStudents(s, open, dv) ==
  IF IsEditMode(dv) /\ open /\ HasSubgroupId(dv)
  THEN LET subgroupId == dv[1].id[1]
       IN [s EXCEPT !.isLoadingSubgroupStudents = TRUE,
                    !.linksReqs = Append(@, subgroupId),
                    !.requests = Append(@, LinksRequest(subgroupId))]
  ELSE s

\* defaultValues?.id
IdOf(dv) == IF dv = <<>> THEN <<>> ELSE dv[1].id

\* The dependencies [isOpen, isEditMode, defaultValues?.id] of that effect.
SubgroupDepsChanged(open, dv) ==
  \/ open # isOpen
  \/ IsEditMode(dv) # IsEditMode(defaultValues)
  \/ IdOf(dv) # IdOf(defaultValues)

\* Fault variant of OnValueChange: the student selection survives the change.
OnValueChange_KeepsStudentIds(s, value) ==
  [s EXCEPT !.form.classId = value]

\* Select.onValueChange of the classId field.
OnValueChange(s, value) ==
  [s EXCEPT !.form.classId = value, !.form.studentIds = <<>>]

\* The branch of the studentIds field that renders the checkboxes.
CheckboxesShown ==
  /\ ~(isLoadingStudents \/ isLoadingSubgroupStudents)
  /\ ~(students = <<>> /\ TruthyStr(form.classId))
  /\ TruthyStr(form.classId)

\* input.onChange of the checkbox of one student.
OnCheckboxChange(s, student) ==
  LET studentIdStr == ToString(student)
      currentIds == s.form.studentIds
      checked == ~Includes(currentIds, studentIdStr)
  IN IF checked
     THEN [s EXCEPT !.form.studentIds = Append(currentIds, studentIdStr)]
     ELSE [s EXCEPT !.form.studentIds = Without(currentIds, studentIdStr)]

\* Fault variant of SubgroupFormSchema: classId is a string of any length.
SubgroupFormSchema_AnyClassId(values) ==
  /\ IsString(values.name) /\ Len(values.name) >= 1
  /\ values.description \in {Undefined, Null} \/ IsString(values.description)
  /\ IsString(values.classId)

\* subgroupFormSchema accepts the values.
SubgroupFormSchema(values) ==
  /\ IsString(values.name) /\ Len(values.name) >= 1
  /\ values.description \in {Undefined, Null} \/ IsString(values.description)
  /\ IsString(values.classId) /\ Len(values.classId) >= 1

\* The payload handleFormSubmit passes to onSubmit.
HandleFormSubmit(values) ==
  [name |-> values.name,
   description |->
     IF TruthyStr(values.description) THEN values.description ELSE Null,
   classId |-> ParseInt(values.classId),
   studentIds |-> FilterNotNaN(MapParseInt(values.studentIds))]

\* form.handleSubmit(handleFormSubmit): validate, then submit.
OnFormSubmit(s) ==
  IF SubgroupFormSchema(s.form)
  THEN [s EXCEPT !.onSubmit = Append(@, HandleFormSubmit(s.form))]
  ELSE s

\* Fault variant of HandleClose: onClose is called before the reset.
HandleClose_ClosesFirst(s) ==
  LET s0 == [s EXCEPT !.onClose =
               Append(@, [form |-> s.form, students |-> s.students])]
      s1 == [s0 EXCEPT !.form = EmptyValues]
      s2 == [s1 EXCEPT !.selectedClassId = <<>>]
  IN [s2 EXCEPT !.students = <<>>]

\* handleClose, up to the re-render it causes.
HandleClose(s) ==
  LET s1 == [s EXCEPT !.form = EmptyValues]
      s2 == [s1 EXCEPT !.selectedClassId = <<>>]
      s3 == [s2 EXCEPT !.students = <<>>]
  IN [s3 EXCEPT !.onClose =
        Append(@, [form |-> s3.form, students |-> s3.students])]

\* Fault variant of OnRosterLoaded: a loaded roster resets the selection.
OnRosterLoaded_ClearsSelection(s, data) ==
  [s EXCEPT !.students = data, !.form.studentIds = <<>>,
            !.isLoadingStudents = FALSE]

\* .then(data => setStudents(data || [])) ... .finally(...)
OnRosterLoaded(s, data) ==
  [s EXCEPT !.students = data, !.isLoadingStudents = FALSE]

\* Fault variant of OnRosterFailed: the roster shown is kept on failure.
OnRosterFailed_KeepsRoster(s) ==
  [s EXCEPT !.toasts = @ + 1, !.isLoadingStudents = FALSE]

\* .catch(...) ... .finally(...) of the roster fetch
OnRosterFailed(s) ==
  [s EXCEPT !.students = <<>>, !.toasts = @ + 1, !.isLoadingStudents = FALSE]

\* Fault variant of OnLinksLoaded: the fetched ids are added to those held.
OnLinksLoaded_Merges(s, links) ==
  LET fetchedStudentIds ==
        IF links # <<>> THEN MapToString(links[1]) ELSE <<>>
  IN [s EXCEPT !.form.studentIds = @ \o fetchedStudentIds,
               !.isLoadingSubgroupStudents = FALSE]

\* .then((studentLinks) => ...) ... .finally(...): links is << array >>, or
\* << >> when the body is no array.
OnLinksLoaded(s, links) ==
  LET fetchedStudentIds ==
        IF links # <<>> THEN MapToString(links[1]) ELSE <<>>
  IN [s EXCEPT !.form.studentIds = fetchedStudentIds,
               !.isLoadingSubgroupStudents = FALSE]

\* Fault variant of OnLinksFailed: studentIds reverts to the defaults' (the
\* statement the source keeps commented out).
OnLinksFailed_RevertsToDefaults(s) ==
  [s EXCEPT !.form.studentIds =
              IF defaultValues = <<>> THEN <<>> ELSE defaultValues[1].studentIds,
            !.toasts = @ + 1, !.isLoadingSubgroupStudents = FALSE]

\* .catch(...) ... .finally(...) of the subgroup-links fetch
OnLinksFailed(s) ==
  [s EXCEPT !.toasts = @ + 1, !.isLoadingSubgroupStudents = FALSE]

\* The state the run leaves, and the record of the run.
Commit(op, arg, s) ==
  /\ Len(s.rosterReqs) + Len(s.linksReqs) <= MaxPending
  /\ form' = s.form
  /\ selectedClassId' = s.selectedClassId
  /\ students' = s.students
  /\ isLoadingStudents' = s.isLoadingStudents
  /\ isLoadingSubgroupStudents' = s.isLoadingSubgroupStudents
  /\ rosterReqs' = s.rosterReqs
  /\ linksReqs' = s.linksReqs
  /\ ev' = Event(op, arg, form, s.onClose, s.onSubmit, s.requests, s.toasts)
  /\ UNCHANGED layoutVars

\* -------------------------------------------------------------- actions
\* The caller opens the dialog: isOpen becomes true, with these defaults.
ParentOpen(dv) ==
  /\ ~isOpen
  /\ isOpen' = TRUE
  /\ defaultValues' = dv
  /\ LET s1 == ResetOnOpen(Cur, TRUE, dv)
         s2 == LoadSubgroupStudents(s1, TRUE, dv)
         s3 == OnClassIdChange(form.classId, s2)
     IN Commit("open", dv, s3)
  /\ arrivals' = IF rosterReqs = <<>> /\ linksReqs = <<>> THEN <<>> ELSE Dirty
  /\ rosterFailed' = FALSE

\* The caller passes another defaultValues object while the dialog is open.
ParentSetDefaults(dv) ==
  /\ isOpen
  /\ isOpen' = TRUE
  /\ defaultValues' = dv
  /\ LET s1 == ResetOnOpen(Cur, TRUE, dv)
         s2 == IF SubgroupDepsChanged(TRUE, dv)
               THEN LoadSubgroupStudents(s1, TRUE, dv) ELSE s1
         s3 == OnClassIdChange(form.classId, s2)
     IN Commit("defaults", dv, s3)
  /\ arrivals' = Dirty
  /\ UNCHANGED rosterFailed

\* The caller sets isOpen to false (after a submit, or after onClose).
ParentClose ==
  /\ isOpen
  /\ isOpen' = FALSE
  /\ LET s1 == ResetOnOpen(Cur, FALSE, defaultValues)
         s2 == LoadSubgroupStudents(s1, FALSE, defaultValues)
     IN Commit("parentClose", <<>>, s2)
  /\ arrivals' = Dirty
  /\ UNCHANGED <<defaultValues, rosterFailed>>

\* The user picks a class in the selector.
SelectClass(c) ==
  /\ isOpen
  /\ LET value == ToString(c)
         s1 == OnValueChange(Cur, value)
         s2 == OnClassIdChange(form.classId, s1)
     IN Commit("selectClass", value, s2)
  /\ arrivals' = Dirty
  /\ UNCHANGED <<isOpen, defaultValues, rosterFailed>>

\* The user types a name.
TypeName(v) ==
  /\ isOpen
  /\ form.name # v
  /\ Commit("typeName", v, [Cur EXCEPT !.form.name = v])
  /\ arrivals' = Dirty
  /\ UNCHANGED <<isOpen, defaultValues, rosterFailed>>

\* The user ticks or unticks the checkbox of the i-th student shown.
ToggleStudent(i) ==
  /\ isOpen
  /\ CheckboxesShown
  /\ ~isLoadingSubgroupStudents
  /\ i \in 1..Len(students)
  /\ Commit("toggleStudent", <<students[i]>>,
            OnCheckboxChange(Cur, students[i]))
  /\ arrivals' = Dirty
  /\ UNCHANGED <<isOpen, defaultValues, rosterFailed>>

\* The user submits the form.
Submit ==
  /\ isOpen
  /\ Commit("submit", <<>>, OnFormSubmit(Cur))
  /\ arrivals' = Dirty
  /\ UNCHANGED <<isOpen, defaultValues, rosterFailed>>

\* The user cancels or dismisses the dialog.
Close ==
  /\ isOpen
  /\ LET s1 == HandleClose(Cur)
         s2 == OnClassIdChange(form.classId, s1)
     IN Commit("handleClose", <<>>, s2)
  /\ arrivals' = Dirty
  /\ UNCHANGED <<isOpen, defaultValues, rosterFailed>>

\* The response to the i-th roster fetch in flight arrives, with a roster.
RosterLoaded(i) ==
  /\ i \in 1..Len(rosterReqs)
  /\ LET s1 == [Cur EXCEPT !.rosterReqs = RemoveAt(@, i)]
     IN Commit("rosterLoaded", rosterReqs[i],
               OnRosterLoaded(s1, ClassRoster(rosterReqs[i])))
  /\ arrivals' = IF arrivals = Dirty THEN Dirty ELSE Append(arrivals, "roster")
  /\ UNCHANGED <<isOpen, defaultValues, rosterFailed>>

\* The i-th roster fetch in flight fails (not OK, or rejected).
RosterFailed(i) ==
  /\ i \in 1..Len(rosterReqs)
  /\ LET s1 == [Cur EXCEPT !.rosterReqs = RemoveAt(@, i)]
     IN Commit("rosterFailed", rosterReqs[i], OnRosterFailed(s1))
  /\ arrivals' = Dirty
  /\ rosterFailed' = TRUE
  /\ UNCHANGED <<isOpen, defaultValues>>

\* The response to the i-th subgroup-links fetch arrives: an array of links,
\* or a body that is no array.
LinksLoaded(i, isArray) ==
  /\ i \in 1..Len(linksReqs)
  /\ LET s1 == [Cur EXCEPT !.linksReqs = RemoveAt(@, i)]
         links == IF isArray THEN <<SubgroupLinks(linksReqs[i])>> ELSE <<>>
     IN Commit(IF isArray THEN "linksLoaded" ELSE "linksNoArray",
               <<linksReqs[i]>>, OnLinksLoaded(s1, links))
  /\ arrivals' = IF arrivals = Dirty \/ ~isArray THEN Dirty
                 ELSE Append(arrivals, "links")
  /\ UNCHANGED <<isOpen, defaultValues, rosterFailed>>

\* The i-th subgroup-links fetch in flight fails (not OK, or rejected).
LinksFailed(i) ==
  /\ i \in 1..Len(linksReqs)
  /\ LET s1 == [Cur EXCEPT !.linksReqs = RemoveAt(@, i)]
     IN Commit("linksFailed", <<linksReqs[i]>>, OnLinksFailed(s1))
  /\ arrivals' = Dirty
  /\ UNCHANGED <<isOpen, defaultValues, rosterFailed>>

Next ==
  \/ \E dv \in DefaultValuesChoices : ParentOpen(dv)
  \/ \E dv \in DefaultValuesChoices : ParentSetDefaults(dv)
  \/ ParentClose
  \/ \E c \in classes : SelectClass(c)
  \/ \E v \in TypedNames : TypeName(v)
  \/ \E i \in 1..MaxRoster : ToggleStudent(i)
  \/ Submit
  \/ Close
  \/ \E i \in 1..MaxPending : RosterLoaded(i)
  \/ \E i \in 1..MaxPending : RosterFailed(i)
  \/ \E i \in 1..MaxPending, isArray \in BOOLEAN : LinksLoaded(i, isArray)
  \/ \E i \in 1..MaxPending : LinksFailed(i)

Spec == Init /\ [][Next]_vars

\* ----------------------------------------------------------- MainLayout
\* Fault variant of CheckIfMobile: the breakpoint itself counts as mobile.
CheckIfMobile_Inclusive(l, width) ==
  [isMobile |-> width <= Breakpoint,
   sidebarOpen |-> IF width <= Breakpoint THEN FALSE ELSE l.sidebarOpen]

\* checkIfMobile, run at the given window.innerWidth.
CheckIfMobile(l, width) ==
  [isMobile |-> width < Breakpoint,
   sidebarOpen |-> IF width < Breakpoint THEN FALSE ELSE l.sidebarOpen]

\* Fault variant of RemoveResizeListener: the cleanup removes nothing.
RemoveResizeListener_Leaks(n) == n

\* The effect's cleanup: window.removeEventListener('resize', checkIfMobile).
RemoveResizeListener(n) == IF n > 0 THEN n - 1 ELSE 0

\* MainLayout mounts: fresh state, then the effect runs checkIfMobile and
\* registers it for 'resize'.
Mount ==
  /\ ~mounted
  /\ mounted' = TRUE
  /\ LET l == CheckIfMobile([sidebarOpen |-> TRUE, isMobile |-> FALSE],
                            innerWidth)
     IN sidebarOpen' = l.sidebarOpen /\ isMobile' = l.isMobile
  /\ resizeListeners' = resizeListeners + 1
  /\ lastToggle' = <<>>
  /\ lev' = LayoutEvent("mount")
  /\ UNCHANGED <<innerWidth, dialogVars>>

\* MainLayout unmounts: the effect's cleanup runs.
Unmount ==
  /\ mounted
  /\ mounted' = FALSE
  /\ resizeListeners' = RemoveResizeListener(resizeListeners)
  /\ lev' = LayoutEvent("unmount")
  /\ UNCHANGED <<innerWidth, sidebarOpen, isMobile, lastToggle, dialogVars>>

\* The window is resized to width w: every registered listener runs.
Resize(w) ==
  /\ w # innerWidth
  /\ innerWidth' = w
  /\ LET l == IF resizeListeners > 0
              THEN CheckIfMobile([sidebarOpen |-> sidebarOpen,
                                  isMobile |-> isMobile], w)
              ELSE [sidebarOpen |-> sidebarOpen, isMobile |-> isMobile]
     IN sidebarOpen' = l.sidebarOpen /\ isMobile' = l.isMobile
  /\ lev' = LayoutEvent("resize")
  /\ UNCHANGED <<mounted, resizeListeners, lastToggle, dialogVars>>

\* toggleSidebar, called by the header.
ToggleSidebar ==
  /\ mounted
  /\ sidebarOpen' = ~sidebarOpen
  /\ lastToggle' = <<~sidebarOpen>>
  /\ lev' = LayoutEvent("toggle")
  /\ UNCHANGED <<mounted, innerWidth, isMobile, resizeListeners, dialogVars>>

LayoutNext ==
  \/ Mount
  \/ Unmount
  \/ \E w \in Widths : Resize(w)
  \/ ToggleSidebar

LayoutSpec == Init /\ [][LayoutNext]_vars

\* --------------------------------------------------------------- claims
\* name has length at least 1 and classId is a non-empty string.
NameAndClassGiven(values) ==
  /\ values.name \notin {Undefined, Null, <<>>}
  /\ values.classId \notin {Undefined, Null, <<>>}

\* The links requests among the requests a run issued.
LinksRequestsOf(requests) ==
  SelectSeq(requests, LAMBDA r : r.api = "student-subgroups")

\* s is the decimal numeral of n.
IsNumeralOf(str, n) ==
  /\ str # <<>>
  /\ \A i \in 1..Len(str) : IsDigit(str[i])
  /\ Len(str) > 1 => str[1] # "0"
  /\ ParseInt(str) = <<n>>

\* The positions of ids whose entry parses to an integer, and the k-th one.
ParsablePositions(ids) == {i \in 1..Len(ids) : ParseInt(ids[i]) # NaN}

KthParsable(ids, k) ==
  CHOOSE i \in ParsablePositions(ids) :
    Cardinality({j \in ParsablePositions(ids) : j <= i}) = k

\* The students of the roster shown whose checkbox renders checked.
CheckedSet == {students[i] : i \in {j \in 1..Len(students) :
                 Includes(form.studentIds, ToString(students[j]))}}

\* C1: right after the user selects a class, studentIds is the empty list,
\* whatever it held before and before any roster response for the new class
\* has arrived.
C1_SelectClassClearsStudentIds ==
  ev.op = "selectClass" => form.studentIds = <<>> /\ form.classId = ev.arg

\* C1 witness: a class was selected while studentIds held ids, the class
\* changed, and the roster of the new class is still being fetched.
C1_Witness ==
  /\ ev.op = "selectClass"
  /\ ev.before.studentIds # <<>>
  /\ ev.before.classId # form.classId
  /\ Includes(rosterReqs, form.classId)
  /\ form.studentIds = <<>>

\* C2 as stated: whenever the roster offered for selection is non-empty, it
\* is the roster of the class held in the classId field, also when the
\* responses of two roster fetches arrive out of order.
C2_SelectableRosterIsOfCurrentClass ==
  (isOpen /\ CheckboxesShown) => students = ClassRoster(form.classId)

\* C3: onSubmit is invoked exactly when name has length at least 1 and
\* classId is a non-empty string; an empty or absent description and an
\* empty studentIds never block it.
C3_SubmitOnlyWhenValid ==
  ev.op = "submit" =>
    /\ Len(ev.onSubmit) <= 1
    /\ (ev.onSubmit # <<>>) <=> NameAndClassGiven(ev.before)

\* C3 witness: a submission went through with the description absent and no
\* student selected.
C3_Witness ==
  /\ ev.op = "submit"
  /\ Len(ev.onSubmit) = 1
  /\ ev.before.description = Undefined
  /\ ev.before.studentIds = <<>>

\* C4 as stated: the classId of every payload passed to onSubmit is an
\* integer that is the id of an element of the classes prop.
C4_PayloadClassIsOneOfClasses ==
  (ev.op = "submit" /\ ev.onSubmit # <<>>) =>
    /\ ev.onSubmit[1].classId # NaN
    /\ ev.onSubmit[1].classId[1] \in classes

\* C5: for a validated form, onSubmit is called, and the studentIds of the
\* payload are the entries of the form's studentIds that parse to an integer,
\* parsed, in the same order.
C5_PayloadStudentIds ==
  (ev.op = "submit" /\ NameAndClassGiven(ev.before)) =>
    /\ Len(ev.onSubmit) = 1
    /\ LET ids == ev.before.studentIds
           sent == ev.onSubmit[1].studentIds
       IN /\ Len(sent) = Cardinality(ParsablePositions(ids))
          /\ \A k \in 1..Len(sent) :
               <<sent[k]>> = ParseInt(ids[KthParsable(ids, k)])

\* C5 witness: a submission whose studentIds held an entry that is no number
\* before entries that are.
C5_Witness ==
  /\ ev.op = "submit"
  /\ Len(ev.onSubmit) = 1
  /\ Len(ev.before.studentIds) = 3
  /\ ParseInt(ev.before.studentIds[1]) = NaN
  /\ Len(ev.onSubmit[1].studentIds) = 2

\* C6: handleClose leaves name, description and classId empty, studentIds
\* and the roster empty, and calls onClose once, after the reset.
C6_HandleCloseResets ==
  ev.op = "handleClose" =>
    /\ form = EmptyValues
    /\ students = <<>>
    /\ ev.onClose = <<[form |-> EmptyValues, students |-> <<>>]>>

\* C6 witness: the dialog was closed with every field filled in.
C6_Witness ==
  /\ ev.op = "handleClose"
  /\ TruthyStr(ev.before.name)
  /\ TruthyStr(ev.before.classId)
  /\ ev.before.studentIds # <<>>
  /\ Len(ev.onClose) = 1

\* C7: an opening in edit mode with subgroup id N issues exactly one request
\* for the links of N; when a links request succeeds with an array,
\* studentIds becomes the returned studentId values as strings.
C7_OneLinksFetchPerOpen ==
  /\ (ev.op = "open" /\ HasSubgroupId(defaultValues)) =>
       LinksRequestsOf(ev.requests) = <<LinksRequest(defaultValues[1].id[1])>>
  /\ ev.op = "linksLoaded" =>
       LET links == SubgroupLinks(ev.arg[1])
       IN /\ Len(form.studentIds) = Len(links)
          /\ \A k \in 1..Len(links) : IsNumeralOf(form.studentIds[k], links[k])

\* C7 witness: the links of subgroup 6 replaced three ids held before.
C7_Witness ==
  /\ ev.op = "linksLoaded"
  /\ ev.arg = <<6>>
  /\ Len(ev.before.studentIds) = 3
  /\ Len(form.studentIds) = 1

\* C8: opened for subgroup 5 of class "3" with studentIds ["10","11"], once
\* the roster fetch and the links fetch have both succeeded, in either order,
\* the roster is 10, 11, 12 and the checked students are 10 and 11.
C8_BothOrdersSameResult ==
  (/\ isOpen
   /\ defaultValues = <<EditSubgroup5>>
   /\ arrivals \in {<<"roster", "links">>, <<"links", "roster">>}) =>
    /\ students = <<10, 11, 12>>
    /\ CheckedSet = {10, 11}

\* C8 witness: the links response arrived first, the roster second.
C8_Witness ==
  /\ isOpen
  /\ defaultValues = <<EditSubgroup5>>
  /\ arrivals = <<"links", "roster">>
  /\ ev.op = "rosterLoaded"

\* C9: a failed links fetch leaves studentIds as it was, and name,
\* description and classId unchanged.
C9_LinksFailureKeepsForm ==
  ev.op = "linksFailed" => form = ev.before /\ ev.toasts = 1

\* C9 witness: the fetch failed while studentIds was neither empty nor the
\* defaults' studentIds.
C9_Witness ==
  /\ ev.op = "linksFailed"
  /\ defaultValues # <<>>
  /\ form.studentIds # <<>>
  /\ form.studentIds # defaultValues[1].studentIds

\* C10: a failed roster fetch empties the roster and leaves name,
\* description and classId unchanged; no response of either fetch calls
\* onClose; after a failure a submit of a valid form still calls onSubmit.
C10_RosterFailureNotFatal ==
  /\ ev.op = "rosterFailed" =>
       /\ students = <<>>
       /\ form.name = ev.before.name
       /\ form.description = ev.before.description
       /\ form.classId = ev.before.classId
  /\ ev.op \in {"rosterLoaded", "rosterFailed", "linksLoaded", "linksNoArray",
                "linksFailed"} => ev.onClose = <<>>
  /\ (ev.op = "submit" /\ rosterFailed /\ NameAndClassGiven(ev.before)) =>
       Len(ev.onSubmit) = 1

\* C10 witness: a submit went through after the roster fetch had failed.
C10_Witness ==
  /\ ev.op = "submit"
  /\ rosterFailed
  /\ students = <<>>
  /\ Len(ev.onSubmit) = 1

\* C11: on mount and on every resize handled at a width below 768,
\* sidebarOpen is false afterwards, whatever it was; a resize at 768 or more
\* leaves sidebarOpen as it was.
C11_NarrowViewportClosesSidebar ==
  /\ (lev.op \in {"mount", "resize"} /\ mounted /\ innerWidth < 768) =>
       ~sidebarOpen /\ isMobile
  /\ (lev.op = "resize" /\ innerWidth >= 768) =>
       sidebarOpen = lev.sidebarOpen

\* C11 witness: the sidebar, opened by a toggle, is closed by a resize to 500.
C11_Witness ==
  /\ lev.op = "resize"
  /\ mounted
  /\ innerWidth = 500
  /\ lastToggle = <<TRUE>>
  /\ lev.sidebarOpen
  /\ ~sidebarOpen

\* C15 as stated: whenever the viewport is narrower than 768 the sidebar is
\* closed, also after a toggleSidebar call made below the breakpoint.
C15_ClosedBelowBreakpoint ==
  (mounted /\ innerWidth < 768) => ~sidebarOpen

\* C16 as stated: whenever the viewport is 768 or wider, sidebarOpen is what
\* the last toggleSidebar call set, or true when there was none.
C16_WideViewportKeepsUserChoice ==
  (mounted /\ innerWidth >= 768) =>
    sidebarOpen = (IF lastToggle = <<>> THEN TRUE ELSE lastToggle[1])

\* C17: one resize listener is registered while MainLayout is mounted, none
\* after it unmounts, and a resize after unmount changes neither sidebarOpen
\* nor isMobile.
C17_ListenerScopedToMount ==
  /\ resizeListeners = (IF mounted THEN 1 ELSE 0)
  /\ (lev.op = "resize" /\ ~mounted) =>
       sidebarOpen = lev.sidebarOpen /\ isMobile = lev.isMobile

\* C17 witness: after an unmount with the sidebar open, the window was
\* resized below the breakpoint and the sidebar state stayed.
C17_Witness ==
  /\ lev.op = "resize"
  /\ ~mounted
  /\ innerWidth < 768
  /\ sidebarOpen
  /\ ~isMobile
  /\ resizeListeners = 0

\* C14 as stated: in a dialog opened with a non-empty classId in
\* defaultValues, once every request has been answered, all of them
\* successfully since the open, and the class is still the one opened with,
\* the roster is that class's roster.
C14_OpenedClassRosterLoads ==
  ( /\ isOpen
    /\ arrivals # Dirty
    /\ rosterReqs = <<>>
    /\ linksReqs = <<>>
    /\ defaultValues # <<>>
    /\ TruthyStr(defaultValues[1].classId)
    /\ form.classId = defaultValues[1].classId ) =>
  students = ClassRoster(defaultValues[1].classId)

\* C18 as stated: isLoadingStudents is true whenever a roster fetch is in
\* flight.
C18_LoadingWhileRosterInFlight ==
  rosterReqs # <<>> => isLoadingStudents

\* C19 as stated: a successful links response does not overwrite the
\* studentIds the user has just set by ticking a checkbox, the tick having
\* been made while that links fetch was in flight.
C19_LinksResponseKeepsUserTicks ==
  [][ (ev.op = "toggleStudent" /\ \E i \in 1..MaxPending : LinksLoaded(i, TRUE))
        => form'.studentIds = form.studentIds ]_vars

\* C12 as stated: after the user selected a different class, a successful
\* links response for a fetch issued before the selection puts no id back
\* into studentIds that was selected before the selection or belongs to the
\* previous class's roster.
C12_NoPreviousClassIdsAfterClassChange ==
  [][ ( /\ isOpen
        /\ ev.op = "selectClass"
        /\ ev.before.classId # form.classId
        /\ \E i \in 1..MaxPending : LinksLoaded(i, TRUE) ) =>
      LET previous == ev.before.studentIds \o
                      MapToString(ClassRoster(ev.before.classId))
      IN \A k \in 1..Len(previous) : ~Includes(form'.studentIds, previous[k])
    ]_vars

\* C13 as stated: a response that arrives right after a reopen, to a request
\* of a kind the reopen did not issue (so issued during a previous open),
\* changes neither the roster nor studentIds.
C13_StaleResponsesChangeNothing ==
  [][ (isOpen /\ ev.op = "open") =>
      /\ ( /\ ~\E k \in 1..Len(ev.requests) :
                 ev.requests[k].api = "students-by-class"
           /\ \E i \in 1..MaxPending : RosterLoaded(i) ) =>
         students' = students
      /\ ( /\ LinksRequestsOf(ev.requests) = <<>>
           /\ \E i \in 1..MaxPending : LinksLoaded(i, TRUE) ) =>
         form'.studentIds = form.studentIds
    ]_vars
====
